---- MODULE Spec2Model ----
(***************************************************************************)
(* Model of src/artifact/src/dataset/dataset.py: class Dataset, whose      *)
(* prepare() drives one dataset root through download -> verify ->         *)
(* extract -> manifest.                                                    *)
(*                                                                         *)
(* The filesystem under the root is three variables (archive, extracted,   *)
(* manifest).  A caller is a process that calls prepare() again and again; *)
(* each statement of prepare() and of its helpers that touches the         *)
(* filesystem or the network is one action.  The collaborators (requests,  *)
(* tarfile, the disk) may fail while `faults` holds.                       *)
(*                                                                         *)
(* Scaling: file contents are short sequences of small numbers, the two    *)
(* 8192-byte chunk sizes are 2, and hashlib.md5 is a toy 8-bit rolling     *)
(* hash that is collision free on the contents the model can produce.      *)
(***************************************************************************)
EXTENDS Integers, Sequences, FiniteSets, TLC

VARIABLES
    archive,     \* the file at archive_path: [exists, data]
    extracted,   \* the directory at extracted_path: [exists, files]
    manifest,    \* the file at manifest_path: [exists, fields]
    pc,          \* pc[c]: where caller c is inside prepare()
    resp,        \* resp[c]: the streamed HTTP response held by _download
    tar,         \* tar[c]: members the TarFile of _extract has still to write
    clock,       \* wall clock, one tick per prepare() call
    faults,      \* TRUE while the collaborators may fail
    sinceHeal,   \* prepare() calls completed since faults ceased
    call,        \* call[c]: record of the current (or last) prepare() call
    prev,        \* prev[c]: record of the call before that
    callers,     \* the callers that use this root
    fh,          \* fh[c]: the handle f that _download of c holds on the archive
    topdir,      \* the top-level directory the published archive unpacks to
    hfile,       \* _md5 on its own: the content of the file at path
    hpos,        \* _md5 on its own: the read position of f
    hstate,      \* _md5 on its own: the state of hash_md5
    hexpect,     \* _verify on its own: the checksum of the descriptor
    hout         \* _md5 / _verify on their own: stage and results

\* what prepare() never changes
others == <<callers, topdir, hfile, hpos, hstate, hexpect, hout>>

vars == <<archive, extracted, manifest, pc, resp, tar, clock, faults,
          sinceHeal, call, prev, fh, others>>

---------------------------------------------------------------------------
(* Bounds *)

\* prepare() calls made in one behaviour
MaxCalls == 4

---------------------------------------------------------------------------
(* The dataset descriptor: class attributes of a Dataset subclass *)

name == "Toy Set"

url == "http://host/toy.tar.gz"

archive_name == "toy.tar.gz"

extracted_dir == "toy"

\* the digest of GoodBody as the publisher states it (lower-case hex)
checksum == <<"7", "c">>

\* self.root
root == "datasets/data"

\* archive_path property
archive_path == <<root, archive_name>>

\* extracted_path property
extracted_path == <<root, extracted_dir>>

\* self.manifest_path, for name = "Toy Set"
manifest_path == <<root, "toy_set.manifest.json">>

---------------------------------------------------------------------------
(* Contents *)

\* the archive the publisher offers: a valid tar.gz holding extracted_dir
GoodBody == <<1, 2, 3>>

\* another file served with status 200 (wrong version, damaged mirror copy)
CorruptBody == <<1, 2, 4>>

\* the body of a non-success (404) response
ErrorBody == <<5>>

Take(s, n) == SubSeq(s, 1, IF n < Len(s) THEN n ELSE Len(s))

Drop(s, n) == SubSeq(s, (IF n < Len(s) THEN n ELSE Len(s)) + 1, Len(s))

---------------------------------------------------------------------------
(* hashlib.md5 and Dataset._md5 *)

\* hashlib.md5(): the state of a fresh hasher
Md5New == 7

\* hash_md5.update(chunk): absorb the bytes of chunk in order
RECURSIVE Md5Update(_, _)
Md5Update(h, chunk) ==
    IF chunk = <<>> THEN h
    ELSE Md5Update((h * 31 + Head(chunk) + 1) % 256, Tail(chunk))

HexDigits == <<"0", "1", "2", "3", "4", "5", "6", "7",
               "8", "9", "a", "b", "c", "d", "e", "f">>

\* hash_md5.hexdigest(): two lower-case hex digits
hexdigest(h) == <<HexDigits[(h \div 16) + 1], HexDigits[(h % 16) + 1]>>

\* CHUNK_SIZE of _md5 (8192 in the source, scaled)
CHUNK_SIZE == 2

\* mutant: a read that comes back short of n bytes is taken for the end
ReadChunk_ShortIsEof(f, pos, n) ==
    IF pos + n > Len(f) THEN <<>> ELSE SubSeq(f, pos + 1, pos + n)

\* f.read(n) at position pos of a file holding f: up to n bytes, b"" at the end
ReadChunk(f, pos, n) ==
    SubSeq(f, pos + 1, IF pos + n < Len(f) THEN pos + n ELSE Len(f))

\* for chunk in iter(lambda: f.read(CHUNK_SIZE), b""): hash_md5.update(chunk)
RECURSIVE Md5Loop(_, _)
Md5Loop(h, rest) ==
    IF Take(rest, CHUNK_SIZE) = <<>> THEN h
    ELSE Md5Loop(Md5Update(h, Take(rest, CHUNK_SIZE)), Drop(rest, CHUNK_SIZE))

\* Dataset._md5(path), for a file holding data
_md5(data) == hexdigest(Md5Loop(Md5New, data))

UpperHexDigits == <<"0", "1", "2", "3", "4", "5", "6", "7",
                    "8", "9", "A", "B", "C", "D", "E", "F">>

\* the value of a hex digit of either case, plus one
HexPos(ch) ==
    CHOOSE i \in 1..16 : HexDigits[i] = ch \/ UpperHexDigits[i] = ch

\* str.lower() and str.upper() on a string of hex digits
lower(d) == [i \in 1..Len(d) |-> HexDigits[HexPos(d[i])]]

upper(d) == [i \in 1..Len(d) |-> UpperHexDigits[HexPos(d[i])]]

\* mutant: the two digests are compared after str.lower()
Mismatch_CaseInsensitive(digest, expected) == lower(digest) # lower(expected)

\* the comparison of _verify: != on two str
Mismatch(digest, expected) == digest # expected

\* the condition of the if in _verify
ChecksumMismatch(data) == Mismatch(_md5(data), checksum)

---------------------------------------------------------------------------
(* requests, tarfile, json *)

\* chunk_size of response.iter_content (8192 in the source, scaled)
chunk_size == 2

\* what requests.get(url, stream=True) can answer: a status and a body.
\* No status makes requests.get raise; the caller has to look at it.
Responses(f) ==
    IF f THEN { [status |-> 200, left |-> GoodBody],
                [status |-> 200, left |-> CorruptBody],
                [status |-> 404, left |-> ErrorBody] }
         ELSE { [status |-> 200, left |-> GoodBody] }

NoResponse == [status |-> 0, left |-> <<>>]

\* tarfile.open(path, "r:gz") accepts the file
ValidTar(data) == data = GoodBody

\* the members of the archive, in order: the directory, then a file in it
TarMembers(data) == IF data = GoodBody THEN <<"dir", "data">> ELSE <<>>

\* tar.extractall(root) writing one member m below root: dir, the directory
\* at extracted_path, is touched only when the archive unpacks to that name
WriteMember(dir, m) ==
    IF topdir # extracted_dir THEN dir
    ELSE IF m = "dir" THEN [exists |-> TRUE, files |-> dir.files]
    ELSE [exists |-> TRUE, files |-> dir.files \cup {m}]

\* Path.resolve(): the path below the working directory, from the root "/"
resolve(path) == <<"/", "cwd">> \o path

\* datetime.now(timezone.utc).isoformat() at time t
isoformat(t) == <<t, "+00:00">>

\* mutant: the paths are written as they are, without resolve()
ManifestDict_Relative(t) ==
    << <<"name", name>>,
       <<"source_url", url>>,
       <<"archive_name", archive_name>>,
       <<"checksum", checksum>>,
       <<"prepared_at", isoformat(t)>>,
       <<"dataset_path", extracted_path>>,
       <<"archive_path", archive_path>> >>

\* the dict built by _write_manifest at time t, in json.dump's key order
ManifestDict(t) ==
    << <<"name", name>>,
       <<"source_url", url>>,
       <<"archive_name", archive_name>>,
       <<"checksum", checksum>>,
       <<"prepared_at", isoformat(t)>>,
       <<"dataset_path", resolve(extracted_path)>>,
       <<"archive_path", resolve(archive_path)>> >>

---------------------------------------------------------------------------
(* Filesystem values *)

NoFile == [exists |-> FALSE, data |-> <<>>]

File(d) == [exists |-> TRUE, data |-> d]

NoDir == [exists |-> FALSE, files |-> {}]

NoManifest == [exists |-> FALSE, fields |-> <<>>]

ManifestFile(fs) == [exists |-> TRUE, fields |-> fs]

\* a manifest left by an earlier run (time 0) of the same descriptor
StaleManifest == ManifestFile(ManifestDict(0))

\* a handle of _download: closed, or open at pos; linked while the file it
\* writes is still the one at archive_path (unlink leaves it open, orphaned)
Closed == [open |-> FALSE, linked |-> FALSE, pos |-> 0]

Opened == [open |-> TRUE, linked |-> TRUE, pos |-> 0]

\* f.write(chunk) at offset off of a file holding data; a hole reads as 0
WriteAt(data, off, chunk) ==
    [i \in 1..(IF off + Len(chunk) > Len(data) THEN off + Len(chunk)
                                               ELSE Len(data)) |->
        IF i > off /\ i <= off + Len(chunk) THEN chunk[i - off]
        ELSE IF i <= Len(data) THEN data[i] ELSE 0]

\* the three paths as one value
Disk == [archive |-> archive, extracted |-> extracted, manifest |-> manifest]

---------------------------------------------------------------------------
(* Callers *)

Procs == {1, 2}

Running == [exc |-> "", at |-> "", arg |-> <<>>]

NoRead == [seen |-> FALSE, data |-> <<>>]

NoCall == [n |-> 0,
           start |-> [archive |-> NoFile, extracted |-> NoDir,
                      manifest |-> NoManifest],
           steps |-> <<>>, status |-> 0, read |-> NoRead,
           result |-> Running]

Done(c) == pc[c] = "idle" /\ call[c].n > 0

Returned(r) == r.result.exc = "return"

Failed(r) == r.result.exc \notin {"", "return"}

Append1(c, step) == [call EXCEPT ![c].steps = Append(@, step)]

---------------------------------------------------------------------------
(* Initial states: what may lie under the root when the first call is made *)

InitArchives == {NoFile, File(GoodBody), File(CorruptBody), File(<<1, 2>>)}

InitDirs == {NoDir, [exists |-> TRUE, files |-> {"old"}]}

InitManifests == {NoManifest, StaleManifest}

InitLocal ==
    /\ pc = [c \in Procs |-> "idle"]
    /\ resp = [c \in Procs |-> NoResponse]
    /\ tar = [c \in Procs |-> <<>>]
    /\ clock = 0
    /\ faults = TRUE
    /\ sinceHeal = 0
    /\ call = [c \in Procs |-> NoCall]
    /\ prev = [c \in Procs |-> NoCall]
    /\ fh = [c \in Procs |-> Closed]

\* _md5 and _verify are not run on their own
HashIdle ==
    /\ hfile = <<>>
    /\ hpos = 0
    /\ hstate = Md5New
    /\ hexpect = checksum
    /\ hout = [stage |-> "off", digest |-> <<>>, verdict |-> ""]

\* one caller at a time, as Section 5 of the specification expects
Init ==
    /\ archive \in InitArchives
    /\ extracted \in InitDirs
    /\ manifest \in InitManifests
    /\ callers = {1}
    /\ topdir = extracted_dir
    /\ InitLocal
    /\ HashIdle

---------------------------------------------------------------------------
(* How a call ends *)

\* the call of c ends with result r (a return or an exception out of prepare)
Finish(c, r) ==
    /\ pc' = [pc EXCEPT ![c] = "idle"]
    /\ call' = [call EXCEPT ![c].result = r]
    /\ sinceHeal' = IF faults THEN sinceHeal ELSE sinceHeal + 1
    /\ resp' = [resp EXCEPT ![c] = NoResponse]
    /\ tar' = [tar EXCEPT ![c] = <<>>]
    /\ fh' = [fh EXCEPT ![c] = Closed]

\* the same, after one more step was logged
FinishAfter(c, step, r) ==
    /\ pc' = [pc EXCEPT ![c] = "idle"]
    /\ call' = [call EXCEPT ![c].result = r, ![c].steps = Append(@, step)]
    /\ sinceHeal' = IF faults THEN sinceHeal ELSE sinceHeal + 1
    /\ resp' = [resp EXCEPT ![c] = NoResponse]
    /\ tar' = [tar EXCEPT ![c] = <<>>]
    /\ fh' = [fh EXCEPT ![c] = Closed]

Return(v) == [exc |-> "return", at |-> "prepare", arg |-> v]

Raise(e, m, a) == [exc |-> e, at |-> m, arg |-> a]

---------------------------------------------------------------------------
(* prepare() *)

\* a caller calls prepare()
Call(c) ==
    /\ pc[c] = "idle"
    /\ clock < MaxCalls
    /\ clock' = clock + 1
    /\ pc' = [pc EXCEPT ![c] = "prepare"]
    /\ prev' = [prev EXCEPT ![c] = call[c]]
    /\ call' = [call EXCEPT ![c] =
                  [n |-> clock + 1, start |-> Disk, steps |-> <<>>,
                   status |-> 0, read |-> NoRead, result |-> Running]]
    /\ UNCHANGED <<archive, extracted, manifest, resp, tar, faults,
                   sinceHeal, fh, others>>

\* mutant: the short circuit also asks for the archive
AlreadyPrepared_NeedsArchive ==
    extracted.exists /\ manifest.exists /\ archive.exists

\* mutant: one of the two paths is enough for the short circuit
AlreadyPrepared_Either == extracted.exists \/ manifest.exists

\* the condition of the first if of prepare()
AlreadyPrepared == extracted.exists /\ manifest.exists

\* if extracted_path.exists() and manifest_path.exists(): return
ShortCircuit(c) ==
    /\ pc[c] = "prepare"
    /\ AlreadyPrepared
    /\ Finish(c, Return(extracted_path))
    /\ UNCHANGED <<archive, extracted, manifest, clock, faults, prev, others>>

\* the first if is not taken
NoShortCircuit(c) ==
    /\ pc[c] = "prepare"
    /\ ~AlreadyPrepared
    /\ pc' = [pc EXCEPT ![c] = "archive?"]
    /\ UNCHANGED <<archive, extracted, manifest, resp, tar, clock, faults,
                   sinceHeal, call, prev, fh, others>>

\* mutant: the second if looks at the wrong path
ArchiveMissing_WrongPath == ~extracted.exists

\* the condition of the second if of prepare()
ArchiveMissing == ~archive.exists

\* if not archive_path.exists(): self._download()
EnterDownload(c) ==
    /\ pc[c] = "archive?"
    /\ ArchiveMissing
    /\ pc' = [pc EXCEPT ![c] = "get"]
    /\ call' = Append1(c, "download")
    /\ UNCHANGED <<archive, extracted, manifest, resp, tar, clock, faults,
                   sinceHeal, prev, fh, others>>

\* mutant: an archive found on disk is trusted, only a download is verified
SkipDownload_NoVerify(c) ==
    /\ pc[c] = "archive?"
    /\ ~ArchiveMissing
    /\ pc' = [pc EXCEPT ![c] = "extract"]
    /\ UNCHANGED <<archive, extracted, manifest, resp, tar, clock, faults,
                   sinceHeal, call, prev, fh, others>>

\* the archive is there: go on to self._verify()
SkipDownload(c) ==
    /\ pc[c] = "archive?"
    /\ ~ArchiveMissing
    /\ pc' = [pc EXCEPT ![c] = "verify"]
    /\ UNCHANGED <<archive, extracted, manifest, resp, tar, clock, faults,
                   sinceHeal, call, prev, fh, others>>

---------------------------------------------------------------------------
(* _download() *)

\* response = requests.get(self.url, stream=True): any status is accepted
Get(c) ==
    /\ pc[c] = "get"
    /\ \E r \in Responses(faults) :
         /\ resp' = [resp EXCEPT ![c] = r]
         /\ call' = [call EXCEPT ![c].status = r.status]
    /\ pc' = [pc EXCEPT ![c] = "open"]
    /\ UNCHANGED <<archive, extracted, manifest, tar, clock, faults,
                   sinceHeal, prev, fh, others>>

\* requests.get raises (no connection): nothing was opened yet
GetFail(c) ==
    /\ pc[c] = "get"
    /\ faults
    /\ Finish(c, Raise("ConnectionError", "_download", <<>>))
    /\ UNCHANGED <<archive, extracted, manifest, clock, faults, prev, others>>

\* with open(self.archive_path, "wb") as f: creates or truncates the file
OpenArchive(c) ==
    /\ pc[c] = "open"
    /\ archive' = File(<<>>)
    /\ fh' = [fh EXCEPT ![c] = Opened]
    /\ pc' = [pc EXCEPT ![c] = "write"]
    /\ UNCHANGED <<extracted, manifest, resp, tar, clock, faults, sinceHeal,
                   call, prev, others>>

\* for chunk in response.iter_content(chunk_size): f.write(chunk)
WriteChunk(c) ==
    /\ pc[c] = "write"
    /\ resp[c].left # <<>>
    /\ archive' = IF fh[c].linked
                     THEN File(WriteAt(archive.data, fh[c].pos,
                                       Take(resp[c].left, chunk_size)))
                     ELSE archive
    /\ fh' = [fh EXCEPT ![c].pos = @ + Len(Take(resp[c].left, chunk_size))]
    /\ resp' = [resp EXCEPT ![c].left = Drop(@, chunk_size)]
    /\ UNCHANGED <<extracted, manifest, pc, tar, clock, faults, sinceHeal,
                   call, prev, others>>

\* iter_content raises in mid-stream: the with block closes the file and
\* the exception leaves prepare(); what was written stays on disk
StreamBreaks(c) ==
    /\ pc[c] = "write"
    /\ resp[c].left # <<>>
    /\ faults
    /\ Finish(c, Raise("ChunkedEncodingError", "_download", <<>>))
    /\ UNCHANGED <<archive, extracted, manifest, clock, faults, prev, others>>

\* the stream is exhausted: the file is closed and _download returns
CloseArchive(c) ==
    /\ pc[c] = "write"
    /\ resp[c].left = <<>>
    /\ pc' = [pc EXCEPT ![c] = "verify"]
    /\ call' = Append1(c, "downloaded")
    /\ fh' = [fh EXCEPT ![c] = Closed]
    /\ UNCHANGED <<archive, extracted, manifest, resp, tar, clock, faults,
                   sinceHeal, prev, others>>

---------------------------------------------------------------------------
(* _verify() *)

\* the digest matches: _verify returns with no side effect
VerifyPass(c) ==
    /\ pc[c] = "verify"
    /\ archive.exists
    /\ ~ChecksumMismatch(archive.data)
    /\ pc' = [pc EXCEPT ![c] = "extract"]
    /\ call' = [call EXCEPT ![c].read = [seen |-> TRUE, data |-> archive.data],
                            ![c].steps = @ \o <<"verify", "verified">>]
    /\ UNCHANGED <<archive, extracted, manifest, resp, tar, clock, faults,
                   sinceHeal, prev, fh, others>>

\* mutant: the mismatch raises but the archive is not unlinked
VerifyFail_KeepsArchive(c) ==
    /\ pc[c] = "verify"
    /\ archive.exists
    /\ ChecksumMismatch(archive.data)
    /\ fh' = [fh EXCEPT ![c] = Closed]
    /\ pc' = [pc EXCEPT ![c] = "idle"]
    /\ call' = [call EXCEPT ![c].read = [seen |-> TRUE, data |-> archive.data],
                            ![c].steps = @ \o <<"verify">>,
                            ![c].result =
                               Raise("RuntimeError", "_verify",
                                     <<name, "archive checksum mismatch.">>)]
    /\ sinceHeal' = IF faults THEN sinceHeal ELSE sinceHeal + 1
    /\ resp' = [resp EXCEPT ![c] = NoResponse]
    /\ tar' = [tar EXCEPT ![c] = <<>>]
    /\ UNCHANGED <<archive, extracted, manifest, clock, faults, prev, others>>

\* mutant: the archive is not unlinked while another caller writes it
VerifyFail_SparesWriter(c) ==
    /\ pc[c] = "verify"
    /\ archive.exists
    /\ ChecksumMismatch(archive.data)
    /\ archive' = IF \E d \in Procs \ {c} : fh[d].open /\ fh[d].linked
                     THEN archive ELSE NoFile
    /\ fh' = [fh EXCEPT ![c] = Closed]
    /\ pc' = [pc EXCEPT ![c] = "idle"]
    /\ call' = [call EXCEPT ![c].read = [seen |-> TRUE, data |-> archive.data],
                            ![c].steps = @ \o <<"verify", "unlink">>,
                            ![c].result =
                               Raise("RuntimeError", "_verify",
                                     <<name, "archive checksum mismatch.">>)]
    /\ sinceHeal' = IF faults THEN sinceHeal ELSE sinceHeal + 1
    /\ resp' = [resp EXCEPT ![c] = NoResponse]
    /\ tar' = [tar EXCEPT ![c] = <<>>]
    /\ UNCHANGED <<extracted, manifest, clock, faults, prev, others>>

\* mutant: after the mismatch the archive is unlinked and fetched again
VerifyFail_Retry(c) ==
    /\ pc[c] = "verify"
    /\ archive.exists
    /\ ChecksumMismatch(archive.data)
    /\ archive' = NoFile
    /\ fh' = [d \in Procs |-> IF d = c THEN Closed
                                      ELSE [fh[d] EXCEPT !.linked = FALSE]]
    /\ pc' = [pc EXCEPT ![c] = "get"]
    /\ call' = [call EXCEPT ![c].read = [seen |-> TRUE, data |-> archive.data],
                            ![c].steps = @ \o <<"verify", "unlink", "download">>]
    /\ UNCHANGED <<extracted, manifest, resp, tar, clock, faults, sinceHeal,
                   prev, others>>

\* the digest differs: archive_path.unlink(missing_ok=True), RuntimeError
VerifyFail(c) ==
    /\ pc[c] = "verify"
    /\ archive.exists
    /\ ChecksumMismatch(archive.data)
    /\ archive' = NoFile
    /\ fh' = [d \in Procs |-> IF d = c THEN Closed
                                      ELSE [fh[d] EXCEPT !.linked = FALSE]]
    /\ pc' = [pc EXCEPT ![c] = "idle"]
    /\ call' = [call EXCEPT ![c].read = [seen |-> TRUE, data |-> archive.data],
                            ![c].steps = @ \o <<"verify", "unlink">>,
                            ![c].result =
                               Raise("RuntimeError", "_verify",
                                     <<name, "archive checksum mismatch.">>)]
    /\ sinceHeal' = IF faults THEN sinceHeal ELSE sinceHeal + 1
    /\ resp' = [resp EXCEPT ![c] = NoResponse]
    /\ tar' = [tar EXCEPT ![c] = <<>>]
    /\ UNCHANGED <<extracted, manifest, clock, faults, prev, others>>

---------------------------------------------------------------------------
(* _extract() *)

\* with tarfile.open(self.archive_path, "r:gz") as tar
OpenTar(c) ==
    /\ pc[c] = "extract"
    /\ archive.exists
    /\ ValidTar(archive.data)
    /\ tar' = [tar EXCEPT ![c] = TarMembers(archive.data)]
    /\ pc' = [pc EXCEPT ![c] = "members"]
    /\ call' = Append1(c, "extract")
    /\ UNCHANGED <<archive, extracted, manifest, resp, clock, faults,
                   sinceHeal, prev, fh, others>>

\* mutant: the exception of tarfile.open is swallowed and prepare() goes on
OpenTarFail_Swallowed(c) ==
    /\ pc[c] = "extract"
    /\ ~(archive.exists /\ ValidTar(archive.data)) \/ faults
    /\ pc' = [pc EXCEPT ![c] = "manifest"]
    /\ call' = Append1(c, "extract")
    /\ UNCHANGED <<archive, extracted, manifest, resp, tar, clock, faults,
                   sinceHeal, prev, fh, others>>

\* tarfile.open raises: the file is no tar.gz, or it cannot be read
OpenTarFail(c) ==
    /\ pc[c] = "extract"
    /\ ~(archive.exists /\ ValidTar(archive.data)) \/ faults
    /\ FinishAfter(c, "extract",
                   Raise(IF archive.exists /\ ValidTar(archive.data)
                           THEN "OSError" ELSE "ReadError",
                         "_extract", <<>>))
    /\ UNCHANGED <<archive, extracted, manifest, clock, faults, prev, others>>

\* tar.extractall(self.root): the next member is written below the root
ExtractMember(c) ==
    /\ pc[c] = "members"
    /\ tar[c] # <<>>
    /\ extracted' = WriteMember(extracted, Head(tar[c]))
    /\ tar' = [tar EXCEPT ![c] = Tail(@)]
    /\ UNCHANGED <<archive, manifest, pc, resp, clock, faults, sinceHeal,
                   call, prev, fh, others>>

\* tar.extractall raises before the next member (disk full, permissions):
\* the members written so far stay
ExtractBreaks(c) ==
    /\ pc[c] = "members"
    /\ tar[c] # <<>>
    /\ faults
    /\ Finish(c, Raise("OSError", "_extract", <<>>))
    /\ UNCHANGED <<archive, extracted, manifest, clock, faults, prev, others>>

\* mutant: the archive is removed once it is unpacked
ExtractDone_RemovesArchive(c) ==
    /\ pc[c] = "members"
    /\ tar[c] = <<>>
    /\ archive' = NoFile
    /\ pc' = [pc EXCEPT ![c] = "manifest"]
    /\ call' = Append1(c, "extracted")
    /\ UNCHANGED <<extracted, manifest, resp, tar, clock, faults,
                   sinceHeal, prev, fh, others>>

\* every member is written: _extract returns
ExtractDone(c) ==
    /\ pc[c] = "members"
    /\ tar[c] = <<>>
    /\ pc' = [pc EXCEPT ![c] = "manifest"]
    /\ call' = Append1(c, "extracted")
    /\ UNCHANGED <<archive, extracted, manifest, resp, tar, clock, faults,
                   sinceHeal, prev, fh, others>>

---------------------------------------------------------------------------
(* _write_manifest() *)

\* with open(self.manifest_path, "w") as f: creates or truncates the file
OpenManifest(c) ==
    /\ pc[c] = "manifest"
    /\ manifest' = ManifestFile(<<>>)
    /\ pc' = [pc EXCEPT ![c] = "dump"]
    /\ call' = Append1(c, "manifest")
    /\ UNCHANGED <<archive, extracted, resp, tar, clock, faults, sinceHeal,
                   prev, fh, others>>

\* open raises (permissions, no space for a new entry): nothing is changed
OpenManifestFail(c) ==
    /\ pc[c] = "manifest"
    /\ faults
    /\ FinishAfter(c, "manifest", Raise("OSError", "_write_manifest", <<>>))
    /\ UNCHANGED <<archive, extracted, manifest, clock, faults, prev, others>>

\* mutant: prepare() returns without the manifest having been written
DumpManifest_NoWrite(c) ==
    /\ pc[c] = "dump"
    /\ manifest' = call[c].start.manifest
    /\ FinishAfter(c, "written", Return(extracted_path))
    /\ UNCHANGED <<archive, extracted, clock, faults, prev, others>>

\* json.dump(manifest, f, indent=2), the file is closed, prepare() returns
DumpManifest(c) ==
    /\ pc[c] = "dump"
    /\ manifest' = ManifestFile(ManifestDict(clock))
    /\ FinishAfter(c, "written", Return(extracted_path))
    /\ UNCHANGED <<archive, extracted, clock, faults, prev, others>>

\* the write raises after k of the seven fields (disk full, interrupt):
\* the with block closes the file with what was written
DumpBreaks(c) ==
    /\ pc[c] = "dump"
    /\ faults
    /\ \E k \in 0..(Len(ManifestDict(clock)) - 1) :
         manifest' = ManifestFile(Take(ManifestDict(clock), k))
    /\ Finish(c, Raise("OSError", "_write_manifest", <<>>))
    /\ UNCHANGED <<archive, extracted, clock, faults, prev, others>>

---------------------------------------------------------------------------
(* The environment *)

\* from now on the fetcher delivers GoodBody and nothing fails; taken
\* between calls, after a call that failed
Heal ==
    /\ faults
    /\ \A c \in callers : pc[c] = "idle"
    /\ \E c \in callers : Failed(call[c])
    /\ faults' = FALSE
    /\ UNCHANGED <<archive, extracted, manifest, pc, resp, tar, clock,
                   sinceHeal, call, prev, fh, others>>

Next ==
    \/ \E c \in callers : Call(c)
    \/ \E c \in callers : ShortCircuit(c)
    \/ \E c \in callers : NoShortCircuit(c)
    \/ \E c \in callers : EnterDownload(c)
    \/ \E c \in callers : SkipDownload(c)
    \/ \E c \in callers : Get(c)
    \/ \E c \in callers : GetFail(c)
    \/ \E c \in callers : OpenArchive(c)
    \/ \E c \in callers : WriteChunk(c)
    \/ \E c \in callers : StreamBreaks(c)
    \/ \E c \in callers : CloseArchive(c)
    \/ \E c \in callers : VerifyPass(c)
    \/ \E c \in callers : VerifyFail(c)
    \/ \E c \in callers : OpenTar(c)
    \/ \E c \in callers : OpenTarFail(c)
    \/ \E c \in callers : ExtractMember(c)
    \/ \E c \in callers : ExtractBreaks(c)
    \/ \E c \in callers : ExtractDone(c)
    \/ \E c \in callers : OpenManifest(c)
    \/ \E c \in callers : OpenManifestFail(c)
    \/ \E c \in callers : DumpManifest(c)
    \/ \E c \in callers : DumpBreaks(c)
    \/ Heal

Spec == Init /\ [][Next]_vars

---------------------------------------------------------------------------
(* Vocabulary of the properties *)

\* first position of x in the step log s, 0 if x is not in it
RECURSIVE IndexFrom(_, _, _)
IndexFrom(s, x, i) ==
    IF i > Len(s) THEN 0
    ELSE IF s[i] = x THEN i ELSE IndexFrom(s, x, i + 1)

Index(s, x) == IndexFrom(s, x, 1)

Has(s, x) == Index(s, x) > 0

\* a occurs in s, and before the first b
Before(s, a, b) == Has(s, a) /\ Index(s, a) < Index(s, b)

RECURSIVE Count(_, _)
Count(s, x) ==
    IF s = <<>> THEN 0
    ELSE (IF Head(s) = x THEN 1 ELSE 0) + Count(Tail(s), x)

\* both paths existed when the call was made
BothAtStart(r) == r.start.extracted.exists /\ r.start.manifest.exists

IntegrityError(r) == r.result.exc = "RuntimeError"

TransportError(r) ==
    /\ r.result.exc \in {"ConnectionError", "ChunkedEncodingError"}
    /\ r.result.at = "_download"

ExtractionError(r) == Failed(r) /\ r.result.at = "_extract"

FullPath == <<"verify", "verified", "extract", "extracted",
              "manifest", "written">>

---------------------------------------------------------------------------
(* C1 *)

\* C1: a prepare() called while extracted_path and manifest_path both exist
\* returns extracted_path, logs no download, verify, extract or manifest
\* step, asks for no response and leaves the three paths as they were at
\* the call; the archive may be absent and the manifest may hold anything.
C1_ShortCircuitFrame ==
    \A c \in callers :
        (call[c].n > 0 /\ BothAtStart(call[c])) =>
            /\ Disk = call[c].start
            /\ call[c].steps = <<>>
            /\ call[c].status = 0
            /\ pc[c] \in {"prepare", "idle"}
            /\ pc[c] = "idle" => call[c].result = Return(extracted_path)

\* a call that found both paths and no archive has returned
C1_Witness ==
    \E c \in callers :
        /\ Done(c)
        /\ BothAtStart(call[c])
        /\ ~call[c].start.archive.exists
        /\ Returned(call[c])

---------------------------------------------------------------------------
(* C2 *)

---------------------------------------------------------------------------
(* C3 *)

\* C3: a prepare() whose verify step read an archive with a digest other
\* than checksum, downloaded in this call or found on disk, ends with the
\* RuntimeError that names the dataset, and archive_path does not exist
\* when it has ended.
C3_IntegrityEnforced ==
    \A c \in callers :
        (Done(c) /\ call[c].read.seen /\ _md5(call[c].read.data) # checksum) =>
            /\ call[c].result =
                 Raise("RuntimeError", "_verify",
                       <<name, "archive checksum mismatch.">>)
            /\ ~archive.exists

\* a left-over archive with a wrong digest was read and the call has ended
C3_Witness ==
    \E c \in callers :
        /\ Done(c)
        /\ call[c].start.archive.exists
        /\ call[c].read.seen
        /\ _md5(call[c].read.data) # checksum
        /\ IntegrityError(call[c])

---------------------------------------------------------------------------
(* C4 *)

\* C4: the prepare() that follows one ended by the integrity error finds
\* archive_path absent, and once it is past its two existence checks the
\* first step it has entered is the download step.
C4_RetryDownloads ==
    \A c \in callers :
        (call[c].n > 0 /\ IntegrityError(prev[c])) =>
            /\ ~call[c].start.archive.exists
            /\ pc[c] \notin {"prepare", "archive?"} =>
                   (call[c].steps # <<>> /\ Head(call[c].steps) = "download")

\* the call after an integrity error has downloaded and ended
C4_Witness ==
    \E c \in callers :
        /\ Done(c)
        /\ IntegrityError(prev[c])
        /\ Has(call[c].steps, "downloaded")

---------------------------------------------------------------------------
(* C5 *)

\* C5: in every prepare() the manifest step is entered only after the
\* verify step passed and the extract step completed in that call, the
\* manifest differs from what it was at the call only once the manifest
\* step was entered, and a call ended by a transport, integrity or
\* extraction error leaves the manifest exactly as it was at the call.
C5_ManifestAfterSuccess ==
    \A c \in callers :
        call[c].n > 0 =>
            /\ Has(call[c].steps, "manifest") =>
                   /\ Before(call[c].steps, "verified", "manifest")
                   /\ Before(call[c].steps, "extracted", "manifest")
            /\ manifest # call[c].start.manifest =>
                   Has(call[c].steps, "manifest")
            /\ (Done(c) /\ (TransportError(call[c]) \/ IntegrityError(call[c])
                            \/ ExtractionError(call[c]))) =>
                   manifest = call[c].start.manifest

\* a call over a root with a manifest has ended by an extraction error
C5_Witness ==
    \E c \in callers :
        /\ Done(c)
        /\ ExtractionError(call[c])
        /\ call[c].start.manifest.exists
        /\ Has(call[c].steps, "verified")

---------------------------------------------------------------------------
(* C6 *)

\* C6: in every prepare() the extract step is entered only after the verify
\* step passed, also when the archive was on disk at the call and was not
\* downloaded; the archive being extracted has the digest checksum, and
\* the manifest step is entered only after the verify step passed.
C6_VerifyBeforeExtract ==
    \A c \in callers :
        call[c].n > 0 =>
            /\ Has(call[c].steps, "extract") =>
                   /\ Before(call[c].steps, "verified", "extract")
                   /\ archive.exists
                   /\ _md5(archive.data) = checksum
            /\ Has(call[c].steps, "manifest") =>
                   Before(call[c].steps, "verified", "manifest")
            /\ Has(call[c].steps, "unlink") => ~Has(call[c].steps, "extract")

\* an archive found on disk was verified and extracted without a download
C6_Witness ==
    \E c \in callers :
        /\ Done(c)
        /\ call[c].start.archive.exists
        /\ ~Has(call[c].steps, "download")
        /\ Has(call[c].steps, "extracted")

---------------------------------------------------------------------------
(* C7 *)

\* C7: whenever manifest_path exists it holds a complete record of seven
\* fields, never an empty or partly written one: in the middle of the
\* manifest step, after a call that was interrupted in it, at any time.
C7_ManifestAllOrNothing ==
    manifest.exists => Len(manifest.fields) = Len(ManifestDict(0))

---------------------------------------------------------------------------
(* C8 *)

\* the fetch of the call went wrong: no connection, a broken stream, or a
\* response with a non-success status
FetchFailed(r) ==
    \/ r.result.exc \in {"ConnectionError", "ChunkedEncodingError"}
    \/ r.status \notin {0, 200}

\* C8: a prepare() whose fetch went wrong, a non-success status included,
\* ends with a transport error out of _download, which is not the
\* integrity error, and without having deleted the archive.
C8_TransportErrorPropagated ==
    \A c \in callers :
        (Done(c) /\ FetchFailed(call[c])) =>
            /\ TransportError(call[c])
            /\ ~IntegrityError(call[c])
            /\ ~Has(call[c].steps, "unlink")

---------------------------------------------------------------------------
(* C9 *)

\* C9: the prepare() that follows one ended by an extraction error does
\* not enter the download step; it verifies the archive on disk and
\* extracts it again, and when it returns it has run verify, extract and
\* manifest in this order.
C9_RetryAfterExtractionError ==
    \A c \in callers :
        (call[c].n > 0 /\ ExtractionError(prev[c])) =>
            /\ ~Has(call[c].steps, "download")
            /\ Done(c) =>
                   /\ Has(call[c].steps, "verify")
                   /\ Has(call[c].steps, "extract")
            /\ (Done(c) /\ Returned(call[c])) => call[c].steps = FullPath

---------------------------------------------------------------------------
(* C10 *)

\* the state PREPARED: the extracted directory holds what a completed
\* extraction of the verified archive puts there, and the manifest exists
Prepared ==
    /\ extracted.exists
    /\ "data" \in extracted.files
    /\ manifest.exists

\* C10: once faults have ceased after a failed call (the fetcher delivers
\* the right archive, nothing fails), the root is PREPARED as soon as two
\* further prepare() calls have ended.
C10_SafeRetry ==
    (~faults /\ sinceHeal >= 2 /\ \A c \in callers : pc[c] = "idle")
        => Prepared

---------------------------------------------------------------------------
(* C11 *)

ManifestKeys == <<"name", "source_url", "archive_name", "checksum",
                  "prepared_at", "dataset_path", "archive_path">>

\* a path that starts at the root of the filesystem
IsAbsolute(path) == path # <<>> /\ Head(path) = "/"

\* C11: after a prepare() that returned through the full path, the manifest
\* exists and holds exactly the seven keys name, source_url, archive_name,
\* checksum, prepared_at, dataset_path and archive_path, each with a
\* non-empty value; checksum is the descriptor's checksum, and dataset_path
\* and archive_path are the absolute forms of extracted_path and
\* archive_path.
C11_ManifestComplete ==
    \A c \in callers :
        (Done(c) /\ Returned(call[c]) /\ Has(call[c].steps, "written")) =>
            /\ manifest.exists
            /\ Len(manifest.fields) = Len(ManifestKeys)
            /\ \A i \in 1..Len(ManifestKeys) :
                   manifest.fields[i][1] = ManifestKeys[i]
            /\ manifest.fields[1][2] = name /\ name # ""
            /\ manifest.fields[2][2] = url /\ url # ""
            /\ manifest.fields[3][2] = archive_name /\ archive_name # ""
            /\ manifest.fields[4][2] = checksum /\ checksum # <<>>
            /\ manifest.fields[5][2] # <<>>
            /\ IsAbsolute(manifest.fields[6][2])
            /\ manifest.fields[6][2] = resolve(extracted_path)
            /\ IsAbsolute(manifest.fields[7][2])
            /\ manifest.fields[7][2] = resolve(archive_path)

\* a call has downloaded, extracted, written the manifest and returned
C11_Witness ==
    \E c \in callers :
        /\ Done(c)
        /\ Returned(call[c])
        /\ Has(call[c].steps, "downloaded")
        /\ Has(call[c].steps, "written")

---------------------------------------------------------------------------
(* _md5 and the comparison of _verify on their own: the file content and  *)
(* the expected digest are drawn at the start, nobody calls prepare()     *)

\* longest file hashed
MaxLen == 5

HashBytes == {1, 2, 3}

RECURSIVE SeqsUpTo(_)
SeqsUpTo(n) ==
    IF n = 0 THEN {<<>>}
    ELSE SeqsUpTo(n - 1) \cup
         {Append(q, b) : q \in {r \in SeqsUpTo(n - 1) : Len(r) = n - 1},
                         b \in HashBytes}

\* checksums a descriptor may state: the digest of GoodBody in lower case,
\* the same in upper case, and the digest of something else
ExpectedDigests == {checksum, upper(checksum), <<"0", "0">>}

InitHash ==
    /\ archive = NoFile
    /\ extracted = NoDir
    /\ manifest = NoManifest
    /\ callers = {}
    /\ topdir = extracted_dir
    /\ InitLocal
    /\ hfile \in SeqsUpTo(MaxLen)
    /\ hexpect \in ExpectedDigests
    /\ hpos = 0
    /\ hstate = Md5New
    /\ hout = [stage |-> "read", digest |-> <<>>, verdict |-> ""]

main == <<archive, extracted, manifest, pc, resp, tar, clock, faults,
          sinceHeal, call, prev, fh, callers, topdir>>

\* one turn of the loop of _md5: a chunk was read, hash_md5.update(chunk)
Md5Read ==
    /\ hout.stage = "read"
    /\ ReadChunk(hfile, hpos, CHUNK_SIZE) # <<>>
    /\ hstate' = Md5Update(hstate, ReadChunk(hfile, hpos, CHUNK_SIZE))
    /\ hpos' = hpos + Len(ReadChunk(hfile, hpos, CHUNK_SIZE))
    /\ UNCHANGED <<hfile, hexpect, hout, main>>

\* f.read returns b"": the loop ends, return hash_md5.hexdigest()
Md5Eof ==
    /\ hout.stage = "read"
    /\ ReadChunk(hfile, hpos, CHUNK_SIZE) = <<>>
    /\ hout' = [hout EXCEPT !.stage = "digest", !.digest = hexdigest(hstate)]
    /\ UNCHANGED <<hfile, hexpect, hpos, hstate, main>>

\* if self._md5(self.archive_path) != self.checksum
VerifyCompare ==
    /\ hout.stage = "digest"
    /\ hout' = [hout EXCEPT !.stage = "verified",
                            !.verdict = IF Mismatch(hout.digest, hexpect)
                                          THEN "mismatch" ELSE "pass"]
    /\ UNCHANGED <<hfile, hexpect, hpos, hstate, main>>

NextHash == Md5Read \/ Md5Eof \/ VerifyCompare

SpecHash == InitHash /\ [][NextHash]_vars

---------------------------------------------------------------------------
(* C12 *)

\* hashlib.md5(content).hexdigest(): the digest of content in one pass
OnePass(content) == hexdigest(Md5Update(Md5New, content))

\* C12: for every file content the digest _md5 returns after reading the
\* file in chunks of CHUNK_SIZE is the digest of the whole content in one
\* pass; while the loop runs the hasher has absorbed exactly the bytes
\* before the read position, in order, and the loop ends with the read
\* position at the end of the file.
C12_ChunkedHashing ==
    /\ hpos <= Len(hfile)
    /\ hout.stage = "read" => hstate = Md5Update(Md5New, Take(hfile, hpos))
    /\ hout.stage \in {"digest", "verified"} =>
           /\ hpos = Len(hfile)
           /\ hout.digest = OnePass(hfile)
           /\ _md5(hfile) = OnePass(hfile)

\* a file of several chunks and a remainder has been hashed
C12_Witness ==
    /\ hout.stage = "digest"
    /\ Len(hfile) > 2 * CHUNK_SIZE
    /\ Len(hfile) % CHUNK_SIZE # 0

---------------------------------------------------------------------------
(* C13 *)

\* a root without the extracted directory; a manifest of an earlier run may
\* lie there
InitFresh ==
    /\ archive \in InitArchives
    /\ extracted = NoDir
    /\ manifest \in InitManifests
    /\ callers = {1}
    /\ topdir = extracted_dir
    /\ InitLocal
    /\ HashIdle

SpecFresh == InitFresh /\ [][Next]_vars

\* C13: on a root that started without the extracted directory, whenever a
\* prepare() has returned (short circuit included) the directory at the
\* returned path holds what a completed extraction of the verified archive
\* puts there.
C13_MarkerSound ==
    \A c \in callers :
        (Done(c) /\ Returned(call[c])) =>
            /\ call[c].result.arg = extracted_path
            /\ extracted.exists
            /\ "data" \in extracted.files

---------------------------------------------------------------------------
(* C14 *)

\* the published archive unpacks to extracted_dir, or to a directory of
\* another name (the descriptor's extracted_dir does not fit the archive)
TopDirs == {extracted_dir, "toy-1.0"}

InitAnyArchive ==
    /\ archive \in InitArchives
    /\ extracted \in InitDirs
    /\ manifest \in InitManifests
    /\ callers = {1}
    /\ topdir \in TopDirs
    /\ InitLocal
    /\ HashIdle

SpecAnyArchive == InitAnyArchive /\ [][Next]_vars

\* C14: whenever a prepare() has returned, the directory at the returned
\* path and the manifest both exist, and the call that follows takes the
\* short circuit; also when the verified archive has no top-level entry
\* extracted_dir.
C14_SuccessPostcondition ==
    \A c \in callers :
        /\ (Done(c) /\ Returned(call[c])) =>
               /\ extracted.exists
               /\ manifest.exists
        /\ (Done(c) /\ Returned(prev[c])) => call[c].steps = <<>>

---------------------------------------------------------------------------
(* C15 *)

\* C15: a prepare() enters the download step at most once, as its first
\* step and only if archive_path was absent; once the archive was unlinked
\* for its digest the call has ended with the integrity error, nothing
\* follows the unlink.
C15_NoAutomaticRetry ==
    \A c \in callers :
        call[c].n > 0 =>
            /\ Count(call[c].steps, "download") <= 1
            /\ Has(call[c].steps, "download") =>
                   /\ ~call[c].start.archive.exists
                   /\ Head(call[c].steps) = "download"
            /\ Has(call[c].steps, "unlink") =>
                   /\ Done(c)
                   /\ IntegrityError(call[c])
                   /\ call[c].steps[Len(call[c].steps)] = "unlink"

\* a call downloaded a wrong file and has ended with the integrity error
C15_Witness ==
    \E c \in callers :
        /\ Done(c)
        /\ IntegrityError(call[c])
        /\ Has(call[c].steps, "downloaded")
        /\ Count(call[c].steps, "download") = 1

---------------------------------------------------------------------------
(* Two callers on one root, a fetcher that delivers GoodBody, no faults *)

InitRace ==
    /\ archive = NoFile
    /\ extracted = NoDir
    /\ manifest \in InitManifests
    /\ callers = {1, 2}
    /\ topdir = extracted_dir
    /\ pc = [c \in Procs |-> "idle"]
    /\ resp = [c \in Procs |-> NoResponse]
    /\ tar = [c \in Procs |-> <<>>]
    /\ clock = 0
    /\ faults = FALSE
    /\ sinceHeal = 0
    /\ call = [c \in Procs |-> NoCall]
    /\ prev = [c \in Procs |-> NoCall]
    /\ fh = [c \in Procs |-> Closed]
    /\ HashIdle

\* open(path, "rb") in _md5 finds no file: another caller has unlinked it
VerifyMissing(c) ==
    /\ pc[c] = "verify"
    /\ ~archive.exists
    /\ FinishAfter(c, "verify", Raise("FileNotFoundError", "_verify", <<>>))
    /\ UNCHANGED <<archive, extracted, manifest, clock, faults, prev, others>>

NextRace ==
    \/ \E c \in callers : Call(c)
    \/ \E c \in callers : ShortCircuit(c)
    \/ \E c \in callers : NoShortCircuit(c)
    \/ \E c \in callers : EnterDownload(c)
    \/ \E c \in callers : SkipDownload(c)
    \/ \E c \in callers : Get(c)
    \/ \E c \in callers : OpenArchive(c)
    \/ \E c \in callers : WriteChunk(c)
    \/ \E c \in callers : CloseArchive(c)
    \/ \E c \in callers : VerifyPass(c)
    \/ \E c \in callers : VerifyFail(c)
    \/ \E c \in callers : VerifyMissing(c)
    \/ \E c \in callers : OpenTar(c)
    \/ \E c \in callers : OpenTarFail(c)
    \/ \E c \in callers : ExtractMember(c)
    \/ \E c \in callers : ExtractDone(c)
    \/ \E c \in callers : OpenManifest(c)
    \/ \E c \in callers : DumpManifest(c)

SpecRace == InitRace /\ [][NextRace]_vars

---------------------------------------------------------------------------
(* C16 *)

\* C16: with two callers and a correct remote archive, whenever the
\* verification of a caller fails it has read content that is not the
\* published archive (what another caller had written so far), and it
\* unlinks archive_path at once: every handle another caller holds open on
\* the file stays open but no longer writes the file at archive_path.
\* Nothing makes the caller wait for the writer.
C16_RaceDeletesUnderWriter ==
    [][\A c \in callers :
          (pc[c] = "verify" /\ IntegrityError(call'[c])) =>
              /\ call'[c].read.data = archive.data
              /\ archive.data # GoodBody
              /\ ~archive'.exists
              /\ \A d \in callers \ {c} :
                     fh[d].open => (fh'[d].open /\ ~fh'[d].linked)]_vars

\* caller c found the file caller d is still writing, did not download,
\* failed on the first chunk alone and unlinked the file; d writes on
C16_Witness ==
    \E c \in callers : \E d \in callers \ {c} :
        /\ Done(c)
        /\ IntegrityError(call[c])
        /\ call[c].start.archive.exists
        /\ ~Has(call[c].steps, "download")
        /\ call[c].read.data = Take(GoodBody, chunk_size)
        /\ pc[d] = "write"
        /\ resp[d].left # <<>>
        /\ fh[d].open
        /\ ~fh[d].linked
        /\ ~archive.exists

---------------------------------------------------------------------------
(* C17 *)

---------------------------------------------------------------------------
(* C18 *)

\* exactly one of extracted_path and manifest_path existed at the call
OneAtStart(r) == r.start.extracted.exists # r.start.manifest.exists

\* C18: a prepare() called while exactly one of extracted_path and
\* manifest_path exists does not take the short circuit: it enters the
\* download step exactly if the archive is absent and, unless the download
\* fails, the verify step; when it returns it has run verify, extract and
\* manifest write in this order and the manifest is the complete record
\* written by this call.
C18_OneOfTwoRunsFullPath ==
    \A c \in callers :
        (call[c].n > 0 /\ OneAtStart(call[c])) =>
            /\ pc[c] \notin {"prepare", "archive?"} =>
                   (Has(call[c].steps, "download")
                      <=> ~call[c].start.archive.exists)
            /\ Done(c) =>
                   /\ call[c].steps # <<>>
                   /\ ~TransportError(call[c]) => Has(call[c].steps, "verify")
            /\ (Done(c) /\ Returned(call[c])) =>
                   /\ call[c].steps =
                        (IF call[c].start.archive.exists THEN <<>>
                         ELSE <<"download", "downloaded">>) \o FullPath
                   /\ manifest.exists
                   /\ manifest.fields = ManifestDict(call[c].n)
                   /\ manifest # call[c].start.manifest

\* a call over a stale manifest and no extracted directory has returned
C18_Witness ==
    \E c \in callers :
        /\ Done(c)
        /\ Returned(call[c])
        /\ call[c].start.manifest = StaleManifest
        /\ ~call[c].start.extracted.exists
        /\ manifest.fields = ManifestDict(call[c].n)

---------------------------------------------------------------------------
(* C19 *)

\* C19 as claimed: the comparison of _verify passes exactly when the
\* digest of the file and the expected digest are the same hex number,
\* whatever the case of their letters.
C19_CaseInsensitiveVerify ==
    hout.stage = "verified" =>
        (hout.verdict = "pass" <=> lower(OnePass(hfile)) = lower(hexpect))

\* C19 as amended: the comparison of _verify passes exactly when the
\* digest of the file, which hexdigest() gives in lower-case hex, equals
\* the expected digest character for character; an expected digest in
\* upper case is a mismatch also for the file it is the digest of.
C19_ExactVerify ==
    hout.stage = "verified" =>
        /\ hout.verdict = "pass" <=> OnePass(hfile) = hexpect
        /\ hout.verdict \in {"pass", "mismatch"}
        /\ (hexpect # lower(hexpect) /\ lower(hexpect) = OnePass(hfile)) =>
               hout.verdict = "mismatch"

\* the published archive was checked against its digest in upper case
C19_Witness ==
    /\ hout.stage = "verified"
    /\ hfile = GoodBody
    /\ hexpect = upper(checksum)
    /\ hexpect # checksum
    /\ hout.verdict = "mismatch"

====
